---- MODULE Spec2Model ----
(***************************************************************************)
(* Pod-Poster (src/pod-poster.py): one run of main(args).                  *)
(*                                                                         *)
(* The run fetches a feed, selects episodes, and for each selected episode *)
(* runs process_episode: extract fields, download, transcode, size check,  *)
(* upload to the webhook (with one rate-limit retry), cleanup.             *)
(*                                                                         *)
(* The environment (HTTP servers, the encoder, the file system) is a       *)
(* nondeterministic choice over the outcomes each call can have.  Strings  *)
(* are sequences of one-character strings.  An optional value (Python's    *)
(* None or a value) is the empty sequence or a one-element sequence.       *)
(* The description and the embed flag only shape the payload of the POST   *)
(* and take no part in the control flow; they are left out.                *)
(***************************************************************************)
EXTENDS Integers, Sequences, FiniteSets

VARIABLES
    args,                 \* the parsed command line: number (-n), level (-l)
    feed,                 \* what the feed URL serves during this run
    pc,                   \* position of main
    all_episodes,         \* main's all_episodes (nodes named by feed position)
    episodes_to_process,  \* main's episodes_to_process
    idx,                  \* how many iterations of main's for loop have begun
    ep,                   \* locals of the current process_episode call
    disk,                 \* working directory: file name -> [by, bytes]
    steps,                \* history: steps of the current process_episode call
    started,              \* history: nodes process_episode was invoked on
    feedGets,             \* history: number of GETs of the feed URL
    posts,                \* history: number of webhook POSTs of the run
    delays,               \* history: number of inter-episode time.sleep(2)
    log,                  \* what lines 132-138 printed for the current episode
    aborted               \* main's for loop was left through an exception

vars == <<args, feed, pc, all_episodes, episodes_to_process, idx, ep, disk,
          steps, started, feedGets, posts, delays, log, aborted>>

----------------------------------------------------------------------------
(* Bounds of the model *)

MaxEpisodes == 2

----------------------------------------------------------------------------
(* Helpers *)

None == <<>>

Some(x) == <<x>>

Min(a, b) == IF a <= b THEN a ELSE b

Max(a, b) == IF a >= b THEN a ELSE b

Reversed(s) == [i \in 1..Len(s) |-> s[Len(s) + 1 - i]]

\* Python's s[:n]: a negative n counts from the end.
SliceTo(s, n) ==
    IF n >= 0 THEN SubSeq(s, 1, Min(n, Len(s)))
    ELSE SubSeq(s, 1, Max(Len(s) + n, 0))

----------------------------------------------------------------------------
(* sanitize_filename *)

IllegalChars == {"\\", "/", "*", "?", ":", "\"", "<", ">", "|"}

MaxNameLen == 230

KeepLegal(c) == c \notin IllegalChars

sanitize_filename(name) ==
    LET stripped == SelectSeq(name, KeepLegal)
        replaced == [i \in 1..Len(stripped) |->
                        IF stripped[i] = " " THEN "_" ELSE stripped[i]]
    IN  SubSeq(replaced, 1, Min(MaxNameLen, Len(replaced)))

OriginalName(base) == base \o <<".", "m", "p", "3">>

CompressedName(base) ==
    base \o <<"_", "c", "o", "m", "p", "r", "e", "s", "s", "e", "d">>
         \o <<".", "m", "p", "3">>

----------------------------------------------------------------------------
(* Inputs *)

TitleA == <<"a", "?", " ", "b">>

TitleB == <<"a", "_", "b">>

\* title: "notag" (no title element), "notext" (element with text None) or
\* "text" with the text in txt.  media: "ok", "notag" (no media element),
\* "noattr" (element without the attribute).
Episode(t, x, m) == [title |-> t, txt |-> x, media |-> m]

EpisodeKinds ==
    { Episode("text", TitleA, "ok"),
      Episode("text", TitleB, "ok"),
      Episode("notag", <<>>, "ok"),
      Episode("notext", <<>>, "ok"),
      Episode("text", TitleB, "notag"),
      Episode("text", TitleB, "noattr") }

NodeSeqs == UNION { [1..k -> EpisodeKinds] : k \in 0..MaxEpisodes }

\* status: "ok" (2xx), "http_error" (raise_for_status raises) or
\* "conn_error" (requests.get raises); wellFormed: the body parses as XML;
\* nodes: the nodes the path expression matches, in feed order.
Feeds ==
    { [status |-> "ok", wellFormed |-> TRUE, nodes |-> ns] : ns \in NodeSeqs }
    \cup { [status |-> "ok", wellFormed |-> FALSE, nodes |-> <<>>] }
    \cup { [status |-> s, wellFormed |-> TRUE,
            nodes |-> <<Episode("text", TitleA, "ok")>>] :
              s \in {"http_error", "conn_error"} }

Numbers == (0 - MaxEpisodes)..(MaxEpisodes + 1)

Levels == {1, 2, 3}

----------------------------------------------------------------------------
(* main: configuration and feed *)

BytesPerMb == 1024 * 1024

level_to_size == [l \in Levels |-> CASE l = 1 -> 25 [] l = 2 -> 50 [] l = 3 -> 100]

max_size_mb == level_to_size[args.level]

FetchSucceedsAlways(f) == TRUE

\* requests.get(args.url) returned and raise_for_status() did not raise.
FetchSucceeds(f) == f.status = "ok"

\* all_episodes[:args.number], reversed.
SelectEpisodes(all, n) == Reversed(SliceTo(all, n))

NoEpisode ==
    [pc |-> "idle", title |-> None, original_file |-> None,
     compressed_file |-> None, response |-> None, exit |-> "none"]

Init ==
    /\ args \in [number : Numbers, level : Levels]
    /\ feed \in Feeds
    /\ pc = "fetch"
    /\ all_episodes = <<>>
    /\ episodes_to_process = <<>>
    /\ idx = 0
    /\ ep = NoEpisode
    /\ disk = <<>>
    /\ steps = <<>>
    /\ started = <<>>
    /\ feedGets = 0
    /\ posts = 0
    /\ delays = 0
    /\ log = None
    /\ aborted = FALSE

\* Lines 160-162: the GET of the feed; a RequestException ends main (184).
FetchFeed ==
    /\ pc = "fetch"
    /\ feedGets' = feedGets + 1
    /\ pc' = IF FetchSucceeds(feed) THEN "parse" ELSE "done"
    /\ UNCHANGED <<args, feed, all_episodes, episodes_to_process, idx, ep,
                   disk, steps, started, posts, delays, log, aborted>>

\* Lines 164-174: parse, findall, the early return on no match, selection.
ParseAndSelect ==
    /\ pc = "parse"
    /\ IF ~feed.wellFormed
       THEN /\ pc' = "done"
            /\ UNCHANGED <<all_episodes, episodes_to_process>>
       ELSE LET found == [i \in 1..Len(feed.nodes) |-> i]
            IN  /\ all_episodes' = found
                /\ IF found = <<>>
                   THEN /\ pc' = "done"
                        /\ UNCHANGED episodes_to_process
                   ELSE /\ episodes_to_process' =
                               SelectEpisodes(found, args.number)
                        /\ pc' = "loop"
    /\ UNCHANGED <<args, feed, idx, ep, disk, steps, started, feedGets,
                   posts, delays, log, aborted>>

\* Lines 176-177: the next iteration calls process_episode.
CallProcessEpisode ==
    /\ pc = "loop"
    /\ idx < Len(episodes_to_process)
    /\ idx' = idx + 1
    /\ started' = Append(started, episodes_to_process[idx + 1])
    /\ ep' = [NoEpisode EXCEPT !.pc = "extract"]
    /\ steps' = <<>>
    /\ log' = None
    /\ pc' = "episode"
    /\ UNCHANGED <<args, feed, all_episodes, episodes_to_process, disk,
                   feedGets, posts, delays, aborted>>

\* Line 176: the loop is exhausted and main returns.
LoopExit ==
    /\ pc = "loop"
    /\ idx >= Len(episodes_to_process)
    /\ pc' = "done"
    /\ UNCHANGED <<args, feed, all_episodes, episodes_to_process, idx, ep,
                   disk, steps, started, feedGets, posts, delays, log,
                   aborted>>

\* Line 182: time.sleep(2) after process_episode returned.
InterEpisodeDelay ==
    /\ pc = "sleep"
    /\ delays' = delays + 1
    /\ pc' = "loop"
    /\ UNCHANGED <<args, feed, all_episodes, episodes_to_process, idx, ep,
                   disk, steps, started, feedGets, posts, log, aborted>>

----------------------------------------------------------------------------
(* process_episode *)

CurrentEpisode == feed.nodes[episodes_to_process[idx]]

Step(op, ok, n, resp) == [op |-> op, ok |-> ok, n |-> n, resp |-> resp]

Exists(d, f) == f \in DOMAIN d

WriteFile(d, f, by, bytes) ==
    [g \in DOMAIN d \cup {f} |->
        IF g = f THEN [by |-> by, bytes |-> bytes] ELSE d[g]]

OsRemove(d, f) == [g \in DOMAIN d \ {f} |-> d[g]]

FieldsPresentNoAttrCheck(e) ==
    /\ e.title # "notag"
    /\ e.media # "notag"

\* Lines 79-101: the three early returns on a missing field.
FieldsPresent(e) ==
    /\ e.title # "notag"
    /\ e.media = "ok"

\* Lines 79-105.  A title element without text gives title = None, and
\* sanitize_filename(None) raises TypeError (caught at 142).
ExtractFields ==
    /\ pc = "episode"
    /\ ep.pc = "extract"
    /\ LET e == CurrentEpisode
       IN  IF FieldsPresent(e) /\ e.title = "text"
           THEN LET base == sanitize_filename(e.txt)
                IN  /\ ep' = [ep EXCEPT !.pc = "download",
                                        !.title = Some(e.txt),
                                        !.original_file = Some(OriginalName(base)),
                                        !.compressed_file = Some(CompressedName(base))]
                    /\ steps' = Append(steps, Step("extract", TRUE, 0, None))
           ELSE /\ ep' = [ep EXCEPT !.pc = "finally"]
                /\ steps' = Append(steps, Step("extract", FALSE, 0, None))
    /\ UNCHANGED <<args, feed, pc, all_episodes, episodes_to_process, idx,
                   disk, started, feedGets, posts, delays, log, aborted>>

DownloadOutcomes == {"ok", "get_failed", "stream_failed"}

DownloadSizes == {8192}

\* Lines 112-117.  "get_failed": requests.get or raise_for_status raises before
\* the file is opened; "stream_failed": iter_content raises after open(.., 'wb').
Download ==
    /\ pc = "episode"
    /\ ep.pc = "download"
    /\ \E o \in DownloadOutcomes, n \in DownloadSizes :
          /\ disk' = CASE o = "ok" ->
                            WriteFile(disk, ep.original_file[1], idx, n)
                       [] o = "stream_failed" ->
                            WriteFile(disk, ep.original_file[1], idx, 0)
                       [] OTHER -> disk
          /\ ep' = [ep EXCEPT !.pc = IF o = "ok" THEN "compress" ELSE "finally"]
          /\ steps' = Append(steps, Step("download", o = "ok", 0, None))
    /\ UNCHANGED <<args, feed, pc, all_episodes, episodes_to_process, idx,
                   started, feedGets, posts, delays, log, aborted>>

CompressOutcomes == {"ok", "failed", "failed_partial"}

\* Sizes of the encoder's output: 1 byte, one byte under the ceiling of mb
\* megabytes, the ceiling, and one byte over it.
CompressedSizes(mb) ==
    {1, mb * BytesPerMb - 1, mb * BytesPerMb, mb * BytesPerMb + 1}

\* compress_mp3, lines 10-20, called at line 120.
Compress ==
    /\ pc = "episode"
    /\ ep.pc = "compress"
    /\ \/ \E n \in CompressedSizes(max_size_mb) :
             /\ disk' = WriteFile(disk, ep.compressed_file[1], idx, n)
             /\ ep' = [ep EXCEPT !.pc = "sizecheck"]
             /\ steps' = Append(steps, Step("transcode", TRUE, 0, None))
       \/ \E o \in CompressOutcomes \ {"ok"} :
             /\ disk' = IF o = "failed_partial"
                        THEN WriteFile(disk, ep.compressed_file[1], idx, 0)
                        ELSE disk
             /\ ep' = [ep EXCEPT !.pc = "finally"]
             /\ steps' = Append(steps, Step("transcode", FALSE, 0, None))
    /\ UNCHANGED <<args, feed, pc, all_episodes, episodes_to_process, idx,
                   started, feedGets, posts, delays, log, aborted>>

TooLargeOrEqual(bytes, mb) == bytes >= mb * BytesPerMb

\* Lines 124-125: os.path.getsize(f) / (1024 * 1024) > max_size_mb.  The
\* quotient is exact (a division by a power of two), so it exceeds the whole
\* number mb iff its whole part does, or equals it with a remainder.
TooLarge(bytes, mb) ==
    LET whole == bytes \div BytesPerMb
        rest == bytes % BytesPerMb
    IN  whole > mb \/ (whole = mb /\ rest > 0)

\* Lines 124-127.
SizeCheck ==
    /\ pc = "episode"
    /\ ep.pc = "sizecheck"
    /\ LET bytes == disk[ep.compressed_file[1]].bytes
       IN  /\ ep' = [ep EXCEPT !.pc = IF TooLarge(bytes, max_size_mb)
                                      THEN "finally" ELSE "post1"]
           /\ steps' = Append(steps,
                  Step("sizecheck", ~TooLarge(bytes, max_size_mb), bytes, None))
    /\ UNCHANGED <<args, feed, pc, all_episodes, episodes_to_process, idx,
                   disk, started, feedGets, posts, delays, log, aborted>>

----------------------------------------------------------------------------
(* send_to_discord *)

Statuses == {200, 204, 400, 429, 600}

\* A response body: json says whether response.json() parses it, retry_after
\* is the field of that name when the body has one.
Body(j, ra) == [json |-> j, retry_after |-> ra]

Bodies == {Body(FALSE, None), Body(TRUE, None), Body(TRUE, Some(3))}

Response(s, b) == [status_code |-> s, body |-> b]

\* The webhook answers 429 with any of the bodies, 204 with an empty body and
\* 200, 400 and 600 with a JSON object that has no retry_after field.  600 is
\* a status outside 200/204 for which raise_for_status() does not raise.
Responses ==
    { Response(429, b) : b \in Bodies }
    \cup { Response(204, Body(FALSE, None)) }
    \cup { Response(s, Body(TRUE, None)) : s \in Statuses \ {204, 429} }

RateLimitedOnAnyError(r) == r.status_code >= 400

\* Line 51.
RateLimited(r) == r.status_code = 429

\* Line 52: response.json().get('retry_after', 1).
RetryAfter(b) == IF b.retry_after = None THEN 1 ELSE b.retry_after[1]

\* Lines 24-48 and 62-65: the first POST.  A transport exception is caught at
\* line 63 and None is returned.
FirstPost ==
    /\ pc = "episode"
    /\ ep.pc = "post1"
    /\ posts' = posts + 1
    /\ \/ \E r \in Responses :
             /\ steps' = Append(steps, Step("post", TRUE, 0, Some(r)))
             /\ ep' = [ep EXCEPT !.response = Some(r),
                                 !.pc = IF RateLimited(r) THEN "ratelimit"
                                        ELSE "report"]
       \/ /\ steps' = Append(steps, Step("post", FALSE, 0, None))
          /\ ep' = [ep EXCEPT !.response = None, !.pc = "report"]
    /\ UNCHANGED <<args, feed, pc, all_episodes, episodes_to_process, idx,
                   disk, started, feedGets, delays, log, aborted>>

\* Lines 52-57: read retry_after and sleep.  response.json() raises on a body
\* that is not JSON; the exception is caught at line 63 and None is returned.
RateLimitWait ==
    /\ pc = "episode"
    /\ ep.pc = "ratelimit"
    /\ LET b == ep.response[1].body
       IN  IF b.json
           THEN /\ steps' = Append(steps, Step("sleep", TRUE, RetryAfter(b), None))
                /\ ep' = [ep EXCEPT !.pc = "post2"]
           ELSE /\ steps' = steps
                /\ ep' = [ep EXCEPT !.response = None, !.pc = "report"]
    /\ UNCHANGED <<args, feed, pc, all_episodes, episodes_to_process, idx,
                   disk, started, feedGets, posts, delays, log, aborted>>

\* Lines 60-65: the one retry; its response is returned whatever it is.
SecondPost ==
    /\ pc = "episode"
    /\ ep.pc = "post2"
    /\ posts' = posts + 1
    /\ \/ \E r \in Responses :
             /\ steps' = Append(steps, Step("post", TRUE, 0, Some(r)))
             /\ ep' = [ep EXCEPT !.response = Some(r), !.pc = "report"]
       \/ /\ steps' = Append(steps, Step("post", FALSE, 0, None))
          /\ ep' = [ep EXCEPT !.response = None, !.pc = "report"]
    /\ UNCHANGED <<args, feed, pc, all_episodes, episodes_to_process, idx,
                   disk, started, feedGets, delays, log, aborted>>

----------------------------------------------------------------------------
(* process_episode: report and cleanup *)

\* The truth value of discord_response at lines 132, 135 and 136: None is
\* false, and a requests.Response is true iff its ok property is, that is iff
\* raise_for_status() would not raise; it raises for 400 <= status < 600.
Truthy(resp) ==
    /\ resp # None
    /\ ~(400 <= resp[1].status_code /\ resp[1].status_code < 600)

SuccessStatus(s) == s \in {200, 204}

LogLine(ok, status, text) == [ok |-> ok, status |-> status, text |-> text]

\* Lines 132-138.  A status of None stands for the printed 'N/A', a text of
\* None for the printed 'No response'.
Report ==
    /\ pc = "episode"
    /\ ep.pc = "report"
    /\ LET r == ep.response
       IN  IF Truthy(r) /\ SuccessStatus(r[1].status_code)
           THEN log' = Some(LogLine(TRUE, None, None))
           ELSE log' = Some(LogLine(FALSE,
                           IF Truthy(r) THEN Some(r[1].status_code) ELSE None,
                           IF Truthy(r) THEN Some(r[1].body) ELSE None))
    /\ ep' = [ep EXCEPT !.pc = "finally"]
    /\ UNCHANGED <<args, feed, pc, all_episodes, episodes_to_process, idx,
                   disk, steps, started, feedGets, posts, delays, aborted>>

CleanOriginalSkipped(d, f) == d

CleanCompressedSkipped(d, f) == d

\* Lines 146-147.
CleanOriginal(d, f) == IF f # None /\ Exists(d, f[1]) THEN OsRemove(d, f[1]) ELSE d

\* Lines 148-149.
CleanCompressed(d, f) == IF f # None /\ Exists(d, f[1]) THEN OsRemove(d, f[1]) ELSE d

RemoveOutcomes == {"removed", "oserror"}

\* Lines 144-150, the finally block.  os.remove can raise OSError (the path is
\* a directory, the directory is not writable); nothing in process_episode
\* catches it, so it leaves the function and reaches main's handler at 188,
\* which ends the run.
Cleanup ==
    /\ pc = "episode"
    /\ ep.pc = "finally"
    /\ \E o1, o2 \in RemoveOutcomes :
          LET has1 == ep.original_file # None /\ Exists(disk, ep.original_file[1])
              has2 == ep.compressed_file # None /\ Exists(disk, ep.compressed_file[1])
              raise1 == has1 /\ o1 = "oserror"
              raise2 == ~raise1 /\ has2 /\ o2 = "oserror"
              d1 == IF raise1 THEN disk ELSE CleanOriginal(disk, ep.original_file)
              d2 == IF raise1 \/ raise2 THEN d1
                    ELSE CleanCompressed(d1, ep.compressed_file)
          IN  /\ (~has1 => o1 = "removed")
              /\ (~has2 \/ raise1 => o2 = "removed")
              /\ disk' = d2
              /\ steps' = Append(steps, Step("cleanup", ~(raise1 \/ raise2), 0, None))
              /\ ep' = [ep EXCEPT !.pc = "idle",
                                  !.exit = IF raise1 \/ raise2 THEN "raised"
                                           ELSE "returned"]
              /\ aborted' = (raise1 \/ raise2)
              /\ pc' = IF raise1 \/ raise2 THEN "done" ELSE "sleep"
    /\ UNCHANGED <<args, feed, all_episodes, episodes_to_process, idx,
                   started, feedGets, posts, delays, log>>

----------------------------------------------------------------------------

Next ==
    \/ FetchFeed
    \/ ParseAndSelect
    \/ CallProcessEpisode
    \/ LoopExit
    \/ InterEpisodeDelay
    \/ ExtractFields
    \/ Download
    \/ Compress
    \/ SizeCheck
    \/ FirstPost
    \/ RateLimitWait
    \/ SecondPost
    \/ Report
    \/ Cleanup

Spec == Init /\ [][Next]_vars

----------------------------------------------------------------------------
(* Claims *)

StepIndices(op) == { i \in DOMAIN steps : steps[i].op = op }

Happened(op) == StepIndices(op) # {}

FeedUsable == feed.status = "ok" /\ feed.wellFormed /\ feed.nodes # <<>>

\* C1: once process_episode has returned, whichever step it reached, neither
\* the original nor the compressed file of that episode exists on disk.
C1_NoTempFileAfterReturn ==
    ep.exit = "returned" =>
        /\ ep.original_file # None => ~Exists(disk, ep.original_file[1])
        /\ ep.compressed_file # None => ~Exists(disk, ep.compressed_file[1])
        /\ idx > 0 /\ CurrentEpisode.title = "text" =>
              LET base == sanitize_filename(CurrentEpisode.txt)
              IN  /\ ~Exists(disk, OriginalName(base))
                  /\ ~Exists(disk, CompressedName(base))

\* C1 witness: an episode that was downloaded, transcoded and uploaded has
\* returned.
C1_Witness ==
    /\ ep.exit = "returned"
    /\ ep.compressed_file # None
    /\ \E i \in StepIndices("transcode") : steps[i].ok
    /\ Happened("post")

\* C2 (as claimed): when main has ended after a successful fetch and parse,
\* process_episode was invoked for every selected episode, however an earlier
\* episode ended, an error raised during cleanup included.
C2_EverySelectedEpisodeInvoked ==
    pc = "done" /\ FeedUsable => started = episodes_to_process

\* C3 (as claimed): for every N <= 0 and every feed with a matched node the
\* selection is empty and no webhook POST occurs.
C3_NonPositiveNumberSelectsNothing ==
    args.number <= 0 /\ pc \notin {"fetch", "parse"} /\ all_episodes # <<>> =>
        /\ episodes_to_process = <<>>
        /\ posts = 0

FirstReversed(all, m) == [i \in 1..m |-> all[m + 1 - i]]

\* C4 (as claimed): for every N >= 1 the episodes are processed in exactly the
\* order of the first min(N, count) matched nodes reversed: the selection is
\* that sequence, process_episode is invoked along it in order, and when main
\* has ended it was invoked on all of it.
C4_ProcessedInSelectionOrder ==
    args.number >= 1 /\ pc \notin {"fetch", "parse"} /\ all_episodes # <<>> =>
        LET m == Min(args.number, Len(all_episodes))
            expected == FirstReversed(all_episodes, m)
        IN  /\ episodes_to_process = expected
            /\ started = SubSeq(expected, 1, idx)
            /\ pc = "done" => started = expected

\* C5: a second POST is sent only when the first returned 429, and only after
\* a sleep of the body's retry_after (1 when absent); there is never a third
\* POST; a second response of 200 or 204 is reported as a success.
C5_SingleRateLimitRetry ==
    LET P == StepIndices("post")
    IN  /\ Cardinality(P) <= 2
        /\ \A i, j \in P : i < j =>
              /\ steps[i].resp # None
              /\ steps[i].resp[1].status_code = 429
              /\ j = i + 2
              /\ steps[i + 1].op = "sleep"
              /\ LET ra == steps[i].resp[1].body.retry_after
                 IN  steps[i + 1].n = IF ra = None THEN 1 ELSE ra[1]
              /\ log # None /\ steps[j].resp # None
                   /\ steps[j].resp[1].status_code \in {200, 204}
                 => log[1].ok
        /\ \A i \in StepIndices("sleep") : i - 1 \in P /\ i + 1 \in P \cup {Len(steps) + 1}

\* C5 witness: a 429 with retry_after 3, a sleep of 3, then a 204, reported as
\* a success.
C5_Witness ==
    /\ Cardinality(StepIndices("post")) = 2
    /\ \E i \in StepIndices("sleep") :
          /\ steps[i].n = 3
          /\ steps[i - 1].resp[1].body.retry_after = Some(3)
          /\ steps[i + 1].resp # None
          /\ steps[i + 1].resp[1].status_code = 204
    /\ log # None
    /\ log[1].ok

UploadAttempted == ep.pc \in {"post1", "ratelimit", "post2", "report"} \/ Happened("post")

\* C6: the upload is attempted iff the compressed size in bytes is at most
\* M * 1024 * 1024 for the tier's ceiling M; a file of exactly that size is
\* uploaded and one of a byte more is skipped.
C6_SizeGate ==
    \A i \in StepIndices("sizecheck") :
        LET limit == level_to_size[args.level] * 1024 * 1024
        IN  /\ UploadAttempted <=> steps[i].n <= limit
            /\ steps[i].n = limit => UploadAttempted
            /\ steps[i].n = limit + 1 => ~UploadAttempted

\* C6 witness: at the 100 MB tier a file of exactly 100 * 1024 * 1024 bytes
\* was posted.
C6_Witness ==
    /\ args.level = 3
    /\ \E i \in StepIndices("sizecheck") : steps[i].n = 100 * 1024 * 1024
    /\ Happened("post")

\* C7 (as claimed): when the publisher returned a response whose status is not
\* 200 or 204, the failure log carries that status and body; 'N/A' and
\* 'No response' are logged only when the publisher returned no response.
C7_FailureLogCarriesStatus ==
    log # None =>
        /\ ep.response # None /\ ep.response[1].status_code \notin {200, 204} =>
              /\ ~log[1].ok
              /\ log[1].status = Some(ep.response[1].status_code)
              /\ log[1].text = Some(ep.response[1].body)
        /\ ~log[1].ok /\ log[1].status = None => ep.response = None

\* C8: when the feed fetch fails, the feed is malformed or no node matches, no
\* episode is processed: no download, transcoding, POST or delay occurs, and
\* the feed is fetched exactly once.
C8_FeedFailureEndsRun ==
    ~FeedUsable =>
        /\ started = <<>>
        /\ steps = <<>>
        /\ ep = NoEpisode
        /\ DOMAIN disk = {}
        /\ posts = 0
        /\ delays = 0
        /\ feedGets <= 1
        /\ pc = "done" => feedGets = 1

\* C8 witness: a run whose feed answered with an error status has ended.
C8_Witness ==
    /\ feed.status = "http_error"
    /\ feed.nodes # <<>>
    /\ pc = "done"

StepRank(op) ==
    CASE op = "extract" -> 1
      [] op = "download" -> 2
      [] op = "transcode" -> 3
      [] op = "sizecheck" -> 4
      [] op \in {"post", "sleep"} -> 5
      [] op = "cleanup" -> 6

\* C9: within an episode the steps run in the order extract, download,
\* transcode, size check, upload, cleanup, each only if the one before it
\* succeeded; no download without title tag, media tag and attribute; cleanup
\* is the last step.
C9_StepOrder ==
    idx > 0 =>
        /\ steps # <<>> => steps[1].op = "extract"
        /\ \A i \in 2..Len(steps) :
              LET a == steps[i - 1]
                  b == steps[i]
              IN  /\ a.op # "cleanup"
                  /\ b.op # "cleanup" =>
                        \/ StepRank(b.op) = StepRank(a.op) + 1 /\ a.ok
                        \/ StepRank(b.op) = 5 /\ StepRank(a.op) = 5
                  /\ b.op = "post" /\ a.op = "sizecheck" =>
                        a.n <= level_to_size[args.level] * 1024 * 1024
        /\ Happened("download") =>
              /\ CurrentEpisode.title # "notag"
              /\ CurrentEpisode.media = "ok"
        /\ ep.exit # "none" => steps # <<>> /\ steps[Len(steps)].op = "cleanup"
        /\ ep.pc \in {"download", "compress", "sizecheck", "post1", "ratelimit",
                      "post2", "report"} => ~Happened("cleanup")

\* C9 witness: an episode whose transcoding failed went straight to cleanup.
C9_Witness ==
    /\ ep.exit = "returned"
    /\ Len(steps) = 4
    /\ steps[3].op = "transcode"
    /\ ~steps[3].ok
    /\ steps[4].op = "cleanup"

\* C10: episodes never overlap: every temp file on disk was created by the
\* episode being processed, and none exists when an episode's download begins,
\* also when two titles sanitize to the same filename.
C10_NoOverlap ==
    /\ \A f \in DOMAIN disk : disk[f].by = idx
    /\ pc = "episode" /\ ep.pc \in {"extract", "download"} => DOMAIN disk = {}
    /\ pc \in {"loop", "sleep"} => DOMAIN disk = {}

\* C10 witness: the second of two episodes whose different titles sanitize to
\* the same filename has its own two files on disk.
C10_Witness ==
    /\ idx = 2
    /\ feed.nodes[started[1]].txt # feed.nodes[started[2]].txt
    /\ feed.nodes[started[1]].title = "text"
    /\ sanitize_filename(feed.nodes[started[1]].txt)
         = sanitize_filename(feed.nodes[started[2]].txt)
    /\ ep.pc = "sizecheck"
    /\ Cardinality(DOMAIN disk) = 2

====
